---- MODULE Spec2Model ----
(***************************************************************************)
(* A model of src/chess.ts: the binary STL decoder parseBinaryStlToMesh,   *)
(* the two asset caches (loadStlMesh, loadDxfProfile), the piece           *)
(* dispatcher (makePiece, makeAllPieces) and the entry point main.         *)
(*                                                                         *)
(* Representation.  A byte buffer is a sequence of integers 0..255; byte   *)
(* offset o is element o+1.  A 32-bit unsigned integer is a pair           *)
(* <<hi, lo>> of 16-bit halves (value hi*65536 + lo), so that every        *)
(* pattern 0 .. 2^32-1 is representable.  JavaScript numbers are doubles   *)
(* and exact far beyond 84 + 50*(2^32-1); sums that may pass 2^31 are      *)
(* kept in 16-bit limbs <<l2, l1, l0>>.                                    *)
(***************************************************************************)
EXTENDS Integers, Sequences, FiniteSets, TLC

\* ------------------------------------------------------------- bounds
\* Most triangle records a generated buffer holds.
MaxTri == 2

VARIABLES
  \* the decoder called directly
  buffer,         \* the byte buffer handed to the decoder
  arg,            \* which buffer the current call decodes: "buffer" or "other"
  frame,          \* the running call's locals and position
  ret,            \* what the last finished call returned or threw
  first,          \* what the first finished call on `buffer` returned or threw
  redo,           \* "no", or how the current call follows the recording of `first`
  \* the program
  malformed,      \* the asset names whose embedded payload is malformed
  stlMeshCache,   \* Map<string, Mesh>
  dxfLoopsCache,  \* Map<string, Vec2[][]>
  call,           \* the invocation of main in progress or last finished
  lastLoad,       \* the last asset load of the invocation: its name, how it ended
  loadLog         \* per asset name, how many loads parsed and how many failed

decoderVars == << buffer, arg, frame, ret, first, redo >>
programVars == << malformed, stlMeshCache, dxfLoopsCache, call,
                  lastLoad, loadLog >>
vars == << buffer, arg, frame, ret, first, redo, malformed,
           stlMeshCache, dxfLoopsCache, call, lastLoad, loadLog >>

\* ------------------------------------------------ bytes, words, floats
Radix == 256 * 256

\* DataView.getUint32(offset, true) can be made at all (no RangeError).
CanRead(data, offset) == offset >= 0 /\ offset + 4 <= Len(data)

\* DataView.getUint32(offset, true): four bytes, least significant first.
getUint32(data, offset) ==
  << data[offset + 3] + 256 * data[offset + 4],
     data[offset + 1] + 256 * data[offset + 2] >>

\* The byte offsets one getUint32 touches.
ReadSpan(offset) == offset .. (offset + 3)

\* bitsToFloat: the pattern stored in a scratch view and read back as an
\* IEEE-754 single.  A finite value is sig * 2^pow; every NaN pattern is the
\* one NaN a JavaScript number can be.
bitsToFloat(bits) ==
  LET hi   == bits[1]
      neg  == hi \div 32768 = 1
      e    == (hi % 32768) \div 128
      frac == (hi % 128) * Radix + bits[2]
  IN  IF e = 255
        THEN IF frac = 0 THEN [cls |-> "inf", neg |-> neg]
                         ELSE [cls |-> "nan"]
        ELSE IF e = 0
          THEN IF frac = 0 THEN [cls |-> "zero", neg |-> neg]
                           ELSE [cls |-> "finite", neg |-> neg,
                                 sig |-> frac, pow |-> 0 - 149]
          ELSE [cls |-> "finite", neg |-> neg,
                sig |-> 8388608 + frac, pow |-> e - 150]

DigitChar == <<"0", "1", "2", "3", "4", "5", "6", "7", "8", "9">>

\* Number-to-string of an unsigned 32-bit integer inside a template literal:
\* its decimal digits, most significant first, no leading zeros.
RECURSIVE ToDecimal(_)
ToDecimal(w) ==
  LET hi  == w[1]
      lo  == w[2]
      t   == (hi % 10) * Radix + lo
  IN  IF hi = 0 /\ lo < 10
        THEN << DigitChar[lo + 1] >>
        ELSE ToDecimal(<< hi \div 10, t \div 10 >>) \o << DigitChar[(t % 10) + 1] >>

\* The three numbers run together, with nothing between them.
KeyNoSeparator(xb, yb, zb) == ToDecimal(xb) \o ToDecimal(yb) \o ToDecimal(zb)

\* The template literal `${xb},${yb},${zb}`, as its sequence of characters.
VertexKey(xb, yb, zb) ==
  ToDecimal(xb) \o << "," >> \o ToDecimal(yb) \o << "," >> \o ToDecimal(zb)

\* ----------------------------------------------- parseBinaryStlToMesh
\* 84 + triCount * 50 cut to 32 bits, as integer arithmetic would leave it.
ExpectedBytesWrapped(triCount) ==
  LET low  == triCount[2] * 50 + 84
      high == triCount[1] * 50 + (low \div Radix)
  IN  << 0, high % Radix, low % Radix >>

\* 84 + triCount * 50 in limbs <<l2, l1, l0>> (exact, as in a double).
ExpectedBytes(triCount) ==
  LET low  == triCount[2] * 50 + 84
      high == triCount[1] * 50 + (low \div Radix)
  IN  << high \div Radix, high % Radix, low % Radix >>

\* expectedBytes > data.byteLength, the length being below 2^31.
ExceedsLength(expected, byteLength) ==
  \/ expected[1] > 0
  \/ expected[2] > byteLength \div Radix
  \/ /\ expected[2] = byteLength \div Radix
     /\ expected[3] > byteLength % Radix

\* i < triCount
LoopContinues(i, triCount) == triCount[1] > 0 \/ i < triCount[2]

Thrown(message, reads) ==
  [pc |-> "throw", error |-> message, reads |-> reads]

\* A dedup index kept from the call before instead of made anew.
StaleVertIndex ==
  IF "vertIndex" \in DOMAIN frame THEN frame.vertIndex ELSE [k \in {} |-> 0]

\* new Map<string, number>(): the dedup index of one call.
EmptyVertIndex == [k \in {} |-> 0]

\* Lines 69-81 and 102: the two format checks, then the call's fresh locals.
ParseEnter(data) ==
  IF Len(data) < 84
    THEN Thrown("STL too small.", {})
    ELSE LET triCount == getUint32(data, 80)
         IN  IF ExceedsLength(ExpectedBytes(triCount), Len(data))
               THEN Thrown("STL appears truncated", ReadSpan(80))
               ELSE [pc        |-> "loop",
                     triCount  |-> triCount,
                     i         |-> 0,
                     offset    |-> 84,
                     vertices  |-> << >>,
                     triVerts  |-> << >>,
                     vertIndex |-> EmptyVertIndex,
                     reads     |-> ReadSpan(80)]

\* The index taken as the length of the flat array.
NewIndexUnscaled(vertices) == Len(vertices)

\* const idx = vertices.length / 3
NewIndex(vertices) == Len(vertices) \div 3

\* addVertexFromOffset on the locals loc: three pattern reads, the key
\* lookup, and on a miss the push and the set.  An out-of-range read is the
\* RangeError DataView raises.
addVertexFromOffset(data, loc, offset) ==
  IF ~ CanRead(data, offset) \/ ~ CanRead(data, offset + 8)
    THEN [ok |-> FALSE, loc |-> loc]
    ELSE LET xb  == getUint32(data, offset)
             yb  == getUint32(data, offset + 4)
             zb  == getUint32(data, offset + 8)
             key == VertexKey(xb, yb, zb)
             rd  == loc.reads \cup (offset .. (offset + 11))
         IN  IF key \in DOMAIN loc.vertIndex
               THEN [ok    |-> TRUE,
                     index |-> loc.vertIndex[key],
                     next  |-> offset + 12,
                     loc   |-> [loc EXCEPT !.reads = rd]]
               ELSE LET idx == NewIndex(loc.vertices)
                    IN  [ok    |-> TRUE,
                         index |-> idx,
                         next  |-> offset + 12,
                         loc   |-> [loc EXCEPT
                                      !.reads = rd,
                                      !.vertices = @ \o << bitsToFloat(xb),
                                                           bitsToFloat(yb),
                                                           bitsToFloat(zb) >>,
                                      !.vertIndex = @ @@ (key :> idx)]]

\* The attribute field left unskipped.
AfterAttributeNoSkip(next) == next

\* offset = v2.next + 2
AfterAttribute(next) == next + 2

\* The second and third index pushed in each other's place.
PushTriangleSwapped(triVerts, a, b, c) == triVerts \o << a, c, b >>

\* triVerts.push(v0.index, v1.index, v2.index)
PushTriangle(triVerts, a, b, c) == triVerts \o << a, b, c >>

\* One pass of the loop body, lines 104-109.
ParseIter(data, loc) ==
  LET v0 == addVertexFromOffset(data, loc, loc.offset + 12)
  IN  IF ~ v0.ok THEN Thrown("RangeError", loc.reads) ELSE
      LET v1 == addVertexFromOffset(data, v0.loc, v0.next)
      IN  IF ~ v1.ok THEN Thrown("RangeError", v0.loc.reads) ELSE
          LET v2 == addVertexFromOffset(data, v1.loc, v1.next)
          IN  IF ~ v2.ok THEN Thrown("RangeError", v1.loc.reads) ELSE
              [v2.loc EXCEPT
                 !.triVerts = PushTriangle(@, v0.index, v1.index, v2.index),
                 !.offset   = AfterAttribute(v2.next),
                 !.i        = @ + 1]

\* new Mesh({numProp: 3, vertProperties, triVerts}), lines 112-116.  The
\* Float32Array keeps every value bitsToFloat gave (each is a single
\* already) and the Uint32Array every index (each is below 2^32).
MeshOf(loc) ==
  [numProp        |-> 3,
   vertProperties |-> loc.vertices,
   triVerts       |-> loc.triVerts]

\* The loop run to its end from locals loc.
RECURSIVE RunLoop(_, _)
RunLoop(data, loc) ==
  IF loc.pc = "throw" THEN loc
  ELSE IF LoopContinues(loc.i, loc.triCount)
         THEN RunLoop(data, ParseIter(data, loc))
         ELSE loc

\* The whole call: what it returns or throws.
parseBinaryStlToMesh(data) ==
  LET end == RunLoop(data, ParseEnter(data))
  IN  IF end.pc = "throw"
        THEN [kind |-> "throw", error |-> end.error]
        ELSE [kind |-> "mesh", mesh |-> MeshOf(end)]

\* ------------------------------------------------------ input buffers
\* Bit patterns: +0, -0, 1.0, two NaNs one bit apart, the largest pattern,
\* and small integers whose decimal digits run together the same way.
W0      == << 0, 0 >>
WNegZero == << 32768, 0 >>
WOne    == << 16256, 0 >>
WNaN    == << 32704, 0 >>
WNaN2   == << 32704, 1 >>
WMax    == << 65535, 65535 >>
WInt(n) == << 0, n >>

VZero    == << W0, W0, W0 >>
VX       == << WOne, W0, W0 >>
VY       == << W0, WOne, W0 >>
VNegZero == << WNegZero, W0, W0 >>
VNaN     == << WNaN, W0, W0 >>
VNaN2    == << WNaN2, W0, W0 >>
VKeyA    == << WInt(1), WInt(23), WInt(4) >>
VKeyB    == << WInt(12), WInt(3), WInt(4) >>
VMax     == << WMax, WMax, WMax >>

TrianglePool ==
  { << VZero, VX, VY >>,
    << VZero, VX, VZero >>,
    << VY, VX, VZero >>,
    << VX, VX, VX >>,
    << VZero, VNegZero, VNaN >>,
    << VNaN, VNaN2, VNaN >>,
    << VKeyA, VKeyB, VMax >> }

\* A 32-bit pattern as its four bytes, least significant first.
U32Bytes(w) ==
  << w[2] % 256, w[2] \div 256, w[1] % 256, w[1] \div 256 >>

Fill(n, b) == [k \in 1 .. n |-> b]

VertexBytes(v) == U32Bytes(v[1]) \o U32Bytes(v[2]) \o U32Bytes(v[3])

\* One 50-byte record: normal, three vertices, attribute field.
RecordBytes(tri, pad) ==
  Fill(12, pad) \o VertexBytes(tri[1]) \o VertexBytes(tri[2])
                \o VertexBytes(tri[3]) \o Fill(2, pad)

RECURSIVE BodyBytes(_, _)
BodyBytes(tris, pad) ==
  IF tris = << >> THEN << >>
  ELSE RecordBytes(Head(tris), pad) \o BodyBytes(Tail(tris), pad)

\* Header, declared count, records.
StlBytes(count, tris, pad) ==
  Fill(80, pad) \o U32Bytes(count) \o BodyBytes(tris, pad)

\* A count whose 84 + 50*N passes 2^32 by 88.
HugeCount == << 1310, 47186 >>

\* Declared counts: from none to one more than any buffer holds, 65536,
\* the wrapping count and 2^32 - 1.
CountWords ==
  { WInt(n) : n \in 0 .. (MaxTri + 1) } \cup { << 1, 0 >>, HugeCount, WMax }

TriangleLists ==
  UNION { [1 .. k -> TrianglePool] : k \in 0 .. MaxTri }

\* Every generated buffer: the records as written with zeros in the ignored
\* fields (header, normals, attribute fields), the same with 0xFF there and
\* three trailing bytes, and the same cut one byte short; and buffers too
\* short for the header.
Buffers ==
  { StlBytes(c, t, 0) : c \in CountWords, t \in TriangleLists }
  \cup { StlBytes(c, t, 255) \o Fill(3, 255) :
           c \in CountWords, t \in TriangleLists }
  \cup { LET b == StlBytes(c, t, 0) IN SubSeq(b, 1, Len(b) - 1) :
           c \in CountWords, t \in TriangleLists }
  \cup { << >>, Fill(80, 0) }

\* The buffer a call in between decodes.
OtherBuffer == StlBytes(WInt(1), << << VKeyA, VKeyB, VMax >> >>, 0)

\* --------------------------------------------- the decoder, step by step
NoValue == [kind |-> "none"]
Idle    == [pc |-> "idle"]

CallData == IF arg = "buffer" THEN buffer ELSE OtherBuffer

\* A caller invokes parseBinaryStlToMesh: the checks of lines 69-76 and the
\* locals of lines 78-102.
Call ==
  /\ frame.pc \in { "idle", "done", "failed" }
  /\ \E a \in { "buffer", "other" } :
       /\ arg' = a
       /\ frame' = ParseEnter(IF a = "buffer" THEN buffer ELSE OtherBuffer)
  /\ redo' = IF first = NoValue THEN "no"
             ELSE IF arg = "other" THEN "afterOther" ELSE "again"
  /\ UNCHANGED << buffer, ret, first >>
  /\ UNCHANGED programVars

\* One pass of the for loop.
Iterate ==
  /\ frame.pc = "loop"
  /\ LoopContinues(frame.i, frame.triCount)
  /\ frame' = ParseIter(CallData, frame)
  /\ UNCHANGED << buffer, arg, ret, first, redo >>
  /\ UNCHANGED programVars

\* The loop is over: the mesh is built and returned.
Return ==
  /\ frame.pc = "loop"
  /\ ~ LoopContinues(frame.i, frame.triCount)
  /\ frame' = [frame EXCEPT !.pc = "done"]
  /\ ret' = [kind |-> "mesh", mesh |-> MeshOf(frame)]
  /\ first' = IF arg = "buffer" /\ first = NoValue THEN ret' ELSE first
  /\ UNCHANGED << buffer, arg, redo >>
  /\ UNCHANGED programVars

\* The error raised leaves the call.
Fail ==
  /\ frame.pc = "throw"
  /\ frame' = [frame EXCEPT !.pc = "failed"]
  /\ ret' = [kind |-> "throw", error |-> frame.error]
  /\ first' = IF arg = "buffer" /\ first = NoValue THEN ret' ELSE first
  /\ UNCHANGED << buffer, arg, redo >>
  /\ UNCHANGED programVars

ProgramIdle ==
  /\ malformed = {}
  /\ stlMeshCache = << >>
  /\ dxfLoopsCache = << >>
  /\ call = Idle
  /\ lastLoad = NoValue
  /\ loadLog = << >>

InitDecode ==
  /\ buffer \in Buffers
  /\ arg = "buffer"
  /\ frame = Idle
  /\ ret = NoValue
  /\ first = NoValue
  /\ redo = "no"
  /\ ProgramIdle

NextDecode == Call \/ Iterate \/ Return \/ Fail

SpecDecode == InitDecode /\ [][NextDecode]_vars

\* ------------------------------------------------ claims on the decoder
\* The format as the STL layout states it, read off the bytes directly.
\* Every generated buffer is far shorter than 84 + 50*65536, so a count with
\* a nonzero upper half is never covered by the buffer.
DeclaredCount(data) == data[81] + 256 * data[82]

Accepts(data) ==
  /\ Len(data) >= 84
  /\ data[83] = 0
  /\ data[84] = 0
  /\ 84 + 50 * DeclaredCount(data) <= Len(data)

\* Byte offset of vertex occurrence j (0-based over all triangles).
OccOffset(j) == 84 + 50 * (j \div 3) + 12 + 12 * (j % 3)

\* The twelve raw bytes of occurrence j.
OccBytes(data, j) == SubSeq(data, OccOffset(j) + 1, OccOffset(j) + 12)

Returned == frame.pc = "done" /\ ret.kind = "mesh"

NumVerts(mesh) == Len(mesh.vertProperties) \div 3

\* C1: every index of the returned triangle index array is a non-negative
\* integer below the number of vertices of the returned vertex array.
C1_IndicesInRange ==
  Returned =>
    /\ Len(ret.mesh.vertProperties) % 3 = 0
    /\ \A k \in 1 .. Len(ret.mesh.triVerts) :
         /\ ret.mesh.triVerts[k] \in Nat
         /\ ret.mesh.triVerts[k] < NumVerts(ret.mesh)

C1_Witness ==
  /\ Returned
  /\ Len(ret.mesh.triVerts) = 6
  /\ NumVerts(ret.mesh) >= 4
  /\ \E k \in 1 .. 6 : ret.mesh.triVerts[k] = NumVerts(ret.mesh) - 1

\* C2: two vertex occurrences of one call get the same index exactly when
\* their twelve raw bytes are identical: equal NaN patterns merge, +0 and
\* -0 and patterns one bit apart stay distinct, and no two different
\* triples share a key.
C2_SameIndexIffSameBits ==
  Returned =>
    \A p, q \in 0 .. (Len(ret.mesh.triVerts) - 1) :
      (ret.mesh.triVerts[p + 1] = ret.mesh.triVerts[q + 1])
        <=> (OccBytes(CallData, p) = OccBytes(CallData, q))

C2_Witness ==
  /\ Returned
  /\ Len(ret.mesh.triVerts) = 6
  /\ \E p, q \in 0 .. 5 :
       /\ p # q
       /\ OccBytes(CallData, p) = VertexBytes(VNaN)
       /\ OccBytes(CallData, q) = VertexBytes(VNaN)
       /\ ret.mesh.triVerts[p + 1] = ret.mesh.triVerts[q + 1]
  /\ \E p, q \in 0 .. 5 :
       /\ OccBytes(CallData, p) = VertexBytes(VNaN)
       /\ OccBytes(CallData, q) = VertexBytes(VNaN2)
       /\ ret.mesh.triVerts[p + 1] # ret.mesh.triVerts[q + 1]
  /\ \E p, q \in 0 .. 5 :
       /\ OccBytes(CallData, p) = VertexBytes(VZero)
       /\ OccBytes(CallData, q) = VertexBytes(VNegZero)
       /\ ret.mesh.triVerts[p + 1] # ret.mesh.triVerts[q + 1]

FormatErrors == { "STL too small.", "STL appears truncated" }

\* C3: a buffer shorter than 84 bytes, or one whose declared count N has
\* 84 + 50*N above its length, makes the call fail with a format error and
\* return no mesh; the length is checked before the count is read, and no
\* vertex is read before both checks pass.
C3_RejectsShortAndTruncated ==
  (frame.pc # "idle" /\ ~ Accepts(CallData)) =>
    /\ frame.pc \in { "throw", "failed" }
    /\ frame.error \in FormatErrors
    /\ Len(CallData) < 84 => (frame.error = "STL too small." /\ frame.reads = {})
    /\ Len(CallData) >= 84 =>
         (frame.error = "STL appears truncated" /\ frame.reads = 80 .. 83)
    /\ frame.pc = "failed" => ret.kind = "throw"

C3_Witness ==
  /\ frame.pc = "failed"
  /\ ret = [kind |-> "throw", error |-> "STL appears truncated"]
  /\ CallData = StlBytes(WInt(2), << << VZero, VX, VY >> >>, 0)
  /\ Len(CallData) = 84 + 50

\* C4: decoding the same buffer again, straight away or after a decode of
\* another buffer, gives the same vertex sequence and the same index
\* sequence (or the same failure) as the first decode of it.
C4_SameBufferSameMesh ==
  (frame.pc \in { "done", "failed" } /\ arg = "buffer") => ret = first

C4_Witness ==
  /\ frame.pc = "done"
  /\ arg = "buffer"
  /\ redo = "afterOther"
  /\ ret.kind = "mesh"
  /\ NumVerts(ret.mesh) >= 3
  /\ ret = first

\* Where occurrence j's bytes are first seen, and how many distinct
\* vertices come before that place.
FirstSeen(data, j) ==
  CHOOSE m \in 0 .. j :
    /\ OccBytes(data, m) = OccBytes(data, j)
    /\ \A k \in 0 .. (m - 1) : OccBytes(data, k) # OccBytes(data, j)

FirstSeenRank(data, j) ==
  Cardinality({ OccBytes(data, k) : k \in 0 .. (FirstSeen(data, j) - 1) })

F32Zero == [cls |-> "zero", neg |-> FALSE]
F32One  == [cls |-> "finite", neg |-> FALSE, sig |-> 8388608, pow |-> 0 - 23]

\* C8: an accepted buffer declaring N triangles gives N index triples in
\* file order, the vertex array lists the distinct vertices in first-seen
\* order, and the indices in use are exactly 0 .. V-1; with the two worked
\* examples of one triangle.
C8_FirstSeenOrder ==
  Returned =>
    LET data == CallData
        n    == DeclaredCount(data)
        mesh == ret.mesh
        v    == Cardinality({ OccBytes(data, k) : k \in 0 .. (3 * n - 1) })
    IN  /\ Len(mesh.triVerts) = 3 * n
        /\ Len(mesh.vertProperties) = 3 * v
        /\ \A j \in 0 .. (3 * n - 1) :
             /\ mesh.triVerts[j + 1] = FirstSeenRank(data, j)
             /\ \A c \in 0 .. 2 :
                  mesh.vertProperties[3 * mesh.triVerts[j + 1] + c + 1]
                    = bitsToFloat(getUint32(data, OccOffset(j) + 4 * c))
        /\ { mesh.triVerts[k] : k \in 1 .. (3 * n) } = 0 .. (v - 1)
        /\ data = StlBytes(WInt(1), << << VZero, VX, VY >> >>, 0) =>
             /\ mesh.vertProperties =
                  << F32Zero, F32Zero, F32Zero, F32One, F32Zero, F32Zero,
                     F32Zero, F32One, F32Zero >>
             /\ mesh.triVerts = << 0, 1, 2 >>
        /\ data = StlBytes(WInt(1), << << VZero, VX, VZero >> >>, 0) =>
             /\ mesh.vertProperties =
                  << F32Zero, F32Zero, F32Zero, F32One, F32Zero, F32Zero >>
             /\ mesh.triVerts = << 0, 1, 0 >>

C8_Witness ==
  /\ Returned
  /\ CallData = StlBytes(WInt(1), << << VZero, VX, VZero >> >>, 0)
  /\ NumVerts(ret.mesh) = 2
  /\ ret.mesh.triVerts = << 0, 1, 0 >>

\* The bytes holding the vertices of the first n records.
VertexSpans(n) ==
  UNION { (84 + 50 * t + 12) .. (84 + 50 * t + 47) : t \in 0 .. (n - 1) }

\* C9: on an accepted buffer every read lies inside the buffer; iteration i
\* starts at offset 84 + 50*i and reads bytes 84 + 50*i + 12 up to
\* 84 + 50*i + 48 only; after the loop the offset is 84 + 50*N, within the
\* buffer; normals, attribute fields and bytes past 84 + 50*N are never read.
C9_ReadsInsideBuffer ==
  (frame.pc # "idle" /\ Accepts(CallData)) =>
    /\ frame.pc \in { "loop", "done" }
    /\ frame.reads \subseteq 0 .. (Len(CallData) - 1)
    /\ frame.offset = 84 + 50 * frame.i
    /\ frame.reads = (80 .. 83) \cup VertexSpans(frame.i)
    /\ frame.i <= DeclaredCount(CallData)
    /\ frame.pc = "done" =>
         /\ frame.i = DeclaredCount(CallData)
         /\ frame.offset <= Len(CallData)

C9_Witness ==
  /\ Returned
  /\ frame.i = 2
  /\ frame.offset = 184
  /\ Len(CallData) > 184
  /\ CallData[85] = 255
  /\ CallData[184] = 255
  /\ 84 \notin frame.reads
  /\ 183 \notin frame.reads

\* -------------------------------------------------------- the program
\* Most assets whose embedded payload is malformed in one run.
MaxMalformed == 1

PIECE_IDS ==
  << "pawn", "rook", "bishop", "knight", "queen", "king", "split_pawn",
     "split_bishop", "split_bishop2", "split_knight", "split_knight2",
     "split_queen", "split_king" >>

PieceIdSet == { PIECE_IDS[i] : i \in 1 .. Len(PIECE_IDS) }

DxfNames ==
  { "pawn_profile.dxf", "rook_profile.dxf", "bishop_profile.dxf",
    "knight_profile.dxf", "queen_profile.dxf", "king_profile.dxf",
    "cross_profile.dxf" }

StlNames == { "horse3.stl", "queen_crown2.stl" }

AssetNames == DxfNames \cup StlNames

Dxf(name) == [kind |-> "dxf", name |-> name]
Stl(name) == [kind |-> "stl", name |-> name]

\* Each generator, as the asset loads it makes, in order.  The solids the
\* geometry engine builds from them are not modelled beyond their identity.
createPawnUnscaled == << Dxf("pawn_profile.dxf") >>
createPawn         == createPawnUnscaled
createRook         == << Dxf("rook_profile.dxf") >>
createBishop       == << Dxf("bishop_profile.dxf") >>
createKnight       == << Dxf("knight_profile.dxf"), Stl("horse3.stl") >>
createQueen        == << Dxf("queen_profile.dxf"), Stl("queen_crown2.stl") >>
createKing         == << Dxf("king_profile.dxf"), Dxf("cross_profile.dxf") >>
createSplitPawn    == createPawnUnscaled
createSplitBishop  == << Dxf("bishop_profile.dxf") >>
createSplitBishop2 == << Dxf("bishop_profile.dxf") >>
createSplitKnight  == << Dxf("knight_profile.dxf"), Stl("horse3.stl") >>
createSplitKnight2 == << Dxf("knight_profile.dxf"), Stl("horse3.stl") >>
createSplitQueen   == << Dxf("queen_profile.dxf"), Stl("queen_crown2.stl") >>
createSplitKing    == << Dxf("king_profile.dxf"), Dxf("cross_profile.dxf") >>

\* The object literal's own properties.
GENERATORS ==
  [pawn          |-> createPawn,
   rook          |-> createRook,
   bishop        |-> createBishop,
   knight        |-> createKnight,
   queen         |-> createQueen,
   king          |-> createKing,
   split_pawn    |-> createSplitPawn,
   split_bishop  |-> createSplitBishop,
   split_bishop2 |-> createSplitBishop2,
   split_knight  |-> createSplitKnight,
   split_knight2 |-> createSplitKnight2,
   split_queen   |-> createSplitQueen,
   split_king    |-> createSplitKing]

\* What an object literal inherits from Object.prototype.
ObjectPrototype ==
  { "constructor", "toString", "toLocaleString", "valueOf", "hasOwnProperty",
    "isPrototypeOf", "propertyIsEnumerable", "__proto__", "__defineGetter__",
    "__defineSetter__", "__lookupGetter__", "__lookupSetter__" }

\* GENERATORS[id]: an own property, an inherited one, or undefined.
Lookup(id) ==
  IF id \in DOMAIN GENERATORS THEN "own"
  ELSE IF id \in ObjectPrototype THEN "inherited"
  ELSE "undefined"

\* gen() for an inherited property, called with no receiver in strict code.
InheritedCall(id) ==
  CASE id = "toString"      -> [kind |-> "value", value |-> "[object Undefined]"]
    [] id = "constructor"   -> [kind |-> "value", value |-> "{}"]
    [] id = "isPrototypeOf" -> [kind |-> "value", value |-> "false"]
    [] OTHER                -> [kind |-> "throw", error |-> "TypeError"]

\* ---- the embedded assets: the payloads of ./assets, each either a
\* well-formed one or a malformed one, as `malformed` says
ProfileDoc ==
  [entities |->
     << [type |-> "LINE"],
        [type |-> "LWPOLYLINE",
         vertices |-> << [x |-> 0, y |-> 0], [x |-> 10, y |-> 0, bulge |-> 1],
                         [x |-> 10, y |-> 40] >>] >>]

TwoLoopDoc ==
  [entities |->
     << [type |-> "POLYLINE",
         vertices |-> << [x |-> 0, y |-> 0], [x |-> 4, y |-> 0],
                         [x |-> 4, y |-> 4], [x |-> 0, y |-> 4] >>],
        [type |-> "LWPOLYLINE",
         vertices |-> << [x |-> 1, y |-> 1], [x |-> 2, y |-> 2] >>],
        [type |-> "LWPOLYLINE",
         vertices |-> << [x |-> 1, y |-> 1], [x |-> 3, y |-> 1],
                         [x |-> 2, y |-> 3] >>] >>]

UnusableDoc ==
  [entities |->
     << [type |-> "LINE"],
        [type |-> "POLYLINE",
         vertices |-> << [x |-> 0, y |-> 0], [x |-> 4, y |-> 0] >>],
        [type |-> "LWPOLYLINE"] >>]

NoEntitiesDoc == [header |-> "AC1015"]

GoodDxf(name) ==
  IF name \in { "king_profile.dxf", "cross_profile.dxf", "pawn_profile.dxf" }
    THEN TwoLoopDoc ELSE ProfileDoc

BadDxf(name) ==
  IF name \in { "king_profile.dxf", "knight_profile.dxf", "rook_profile.dxf" }
    THEN UnusableDoc ELSE NoEntitiesDoc

GoodStl(name) ==
  IF name = "horse3.stl"
    THEN StlBytes(WInt(2), << << VZero, VX, VY >>, << VY, VX, VZero >> >>, 0)
    ELSE StlBytes(WInt(1), << << VZero, VX, VZero >> >>, 255) \o Fill(3, 255)

BadStl(name) ==
  IF name = "horse3.stl"
    THEN StlBytes(WInt(2), << << VZero, VX, VY >> >>, 0)
    ELSE Fill(80, 0)

\* base64ToBytes(STL_BASE64[name])
stlAssets(name) == IF name \in malformed THEN BadStl(name) ELSE GoodStl(name)

\* dxfParser.parseSync(base64ToUtf8(DXF_BASE64[name]))
dxfAssets(name) == IF name \in malformed THEN BadDxf(name) ELSE GoodDxf(name)

\* ---- DXF documents, as dxfParser.parseSync hands them over
Entities(dxf) == IF "entities" \in DOMAIN dxf THEN dxf.entities ELSE << >>

EntityVertices(entity) ==
  IF "vertices" \in DOMAIN entity THEN entity.vertices ELSE << >>

\* A polyline entity of at least three vertices.
Usable(entity) ==
  /\ entity.type \in { "LWPOLYLINE", "POLYLINE" }
  /\ Len(EntityVertices(entity)) >= 3

LoopOf(entity) ==
  LET vs == EntityVertices(entity)
  IN  [k \in 1 .. Len(vs) |-> << vs[k].x, vs[k].y >>]

RECURSIVE LoopsOf(_)
LoopsOf(entities) ==
  IF entities = << >> THEN << >>
  ELSE IF Usable(Head(entities))
         THEN << LoopOf(Head(entities)) >> \o LoopsOf(Tail(entities))
         ELSE LoopsOf(Tail(entities))

NoLoopsError == "DXF contained no usable POLYLINE/LWPOLYLINE entities."

parseDxfToLoops(dxf) ==
  LET loops == LoopsOf(Entities(dxf))
  IN  IF Len(loops) = 0
        THEN [kind |-> "throw", error |-> NoLoopsError]
        ELSE [kind |-> "loops", loops |-> loops]

\* Map.set
MapSet(m, k, v) ==
  [n \in DOMAIN m \cup { k } |-> IF n = k THEN v ELSE m[n]]

\* A lookup that never finds the entry.
NeverCached(cache, name) == FALSE

\* cache.get(name) gives an entry
Cached(cache, name) == name \in DOMAIN cache

\* loadDxfProfile: the cache as the call leaves it, and how the call ended.
loadDxfProfile(cache, name) ==
  IF Cached(cache, name)
    THEN [how |-> "hit", cache |-> cache]
    ELSE LET parsed == parseDxfToLoops(dxfAssets(name))
         IN  IF parsed.kind = "throw"
               THEN [how |-> "failed", cache |-> cache, error |-> parsed.error]
               ELSE [how |-> "parsed", cache |-> MapSet(cache, name, parsed.loops)]

\* A load that stores its mesh before the decoder has accepted the bytes:
\* an empty mesh stays behind when the decoder throws.
loadStlMeshStoreFirst(cache, name) ==
  IF Cached(cache, name)
    THEN [how |-> "hit", cache |-> cache]
    ELSE LET mesh == parseBinaryStlToMesh(stlAssets(name))
         IN  IF mesh.kind = "throw"
               THEN [how   |-> "failed",
                     cache |-> MapSet(cache, name,
                                      [numProp |-> 3, vertProperties |-> << >>,
                                       triVerts |-> << >>]),
                     error |-> mesh.error]
               ELSE [how |-> "parsed", cache |-> MapSet(cache, name, mesh.mesh)]

\* loadStlMesh: the cache as the call leaves it, and how the call ended.
loadStlMesh(cache, name) ==
  IF Cached(cache, name)
    THEN [how |-> "hit", cache |-> cache]
    ELSE LET mesh == parseBinaryStlToMesh(stlAssets(name))
         IN  IF mesh.kind = "throw"
               THEN [how |-> "failed", cache |-> cache, error |-> mesh.error]
               ELSE [how |-> "parsed", cache |-> MapSet(cache, name, mesh.mesh)]

\* ---- solids, by identity and position
Made(id) == [shape |-> id, at |-> << 0, 0, 0 >>]

translate(solid, v) ==
  [solid EXCEPT !.at = << @[1] + v[1], @[2] + v[2], @[3] + v[3] >>]

spacing == 50
rowLength == 5

\* The grid with rows and columns taken for one another.
GridOffsetTransposed(index) ==
  << (index \div rowLength) * spacing, 0 - (index % rowLength) * spacing, 0 >>

\* [col * spacing, -row * spacing, 0] for the 0-based index
GridOffset(index) ==
  << (index % rowLength) * spacing, 0 - (index \div rowLength) * spacing, 0 >>

\* An invocation under way: the ids still to make, the loads still to do
\* for the id at `index`, and the solids made so far.
Running(option, all, ids) ==
  [pc     |-> "running",
   option |-> option,
   all    |-> all,
   ids    |-> ids,
   index  |-> 1,
   loads  |-> GENERATORS[ids[1]],
   made   |-> << >>]

Finished(option, outcome) ==
  [pc |-> IF outcome.kind = "throw" THEN "thrown" ELSE "returned",
   option |-> option, outcome |-> outcome]

\* makePiece(id) up to the generator's first load.
makePiece(option, id) ==
  CASE Lookup(id) = "undefined" ->
         Finished(option, [kind |-> "throw", error |-> "Unknown piece id"])
    [] Lookup(id) = "inherited" -> Finished(option, InheritedCall(id))
    [] OTHER -> Running(option, FALSE, << id >>)

\* makeAllPieces() up to the first generator's first load.
makeAllPieces(option) == Running(option, TRUE, PIECE_IDS)

\* !piece
Falsy(option) == ~ option.present \/ option.value = ""

\* main(p): the dispatch on the `piece` option.
main(option) ==
  IF Falsy(option) \/ option.value = "all"
    THEN makeAllPieces(option)
    ELSE makePiece(option, option.value)

\* The options tried: none, "all", the thirteen ids, and strings that are
\* neither.
OtherStrings ==
  { "", "zebra", "toString", "constructor", "hasOwnProperty", "__proto__" }

PieceOptions ==
  { [present |-> FALSE] }
  \cup { [present |-> TRUE, value |-> v] :
           v \in PieceIdSet \cup { "all" } \cup OtherStrings }

Bump(n) == IF n < 2 THEN n + 1 ELSE n

\* An invocation of main starts.  Its body has no await and JavaScript runs
\* one call at a time, so whoever the callers are, no other invocation
\* starts before this one has returned or thrown.
Main ==
  /\ call.pc \in { "idle", "returned", "thrown" }
  /\ \E option \in PieceOptions : call' = main(option)
  /\ lastLoad' = NoValue
  /\ UNCHANGED << malformed, stlMeshCache, dxfLoopsCache, loadLog >>
  /\ UNCHANGED decoderVars

\* The call after the load `done` of the current generator went through.
AfterLoad(c) ==
  IF Len(c.loads) > 1
    THEN [c EXCEPT !.loads = Tail(@)]
    ELSE LET id    == c.ids[c.index]
             solid == IF c.all THEN translate(Made(id), GridOffset(c.index - 1))
                               ELSE Made(id)
             made  == Append(c.made, solid)
         IN  IF c.index < Len(c.ids)
               THEN [c EXCEPT !.index = @ + 1,
                              !.loads = GENERATORS[c.ids[c.index + 1]],
                              !.made  = made]
               ELSE Finished(c.option,
                             IF c.all THEN [kind |-> "solids", value |-> made]
                                      ELSE [kind |-> "solid", value |-> solid])

\* loadDxfProfile or loadStlMesh, as the load asks.
LoadAsset(l) ==
  IF l.kind = "dxf" THEN loadDxfProfile(dxfLoopsCache, l.name)
                    ELSE loadStlMesh(stlMeshCache, l.name)

\* The log with one more load of `name` that ended `how`.
Logged(log, name, how) ==
  IF how = "parsed" THEN [log EXCEPT ![name].parsed = Bump(@)]
  ELSE IF how = "failed" THEN [log EXCEPT ![name].failed = Bump(@)]
  ELSE log

\* The load l ended as r says: the cache is written, the invocation goes on
\* or ends with the error.
Loaded(l, r) ==
  /\ dxfLoopsCache' = IF l.kind = "dxf" THEN r.cache ELSE dxfLoopsCache
  /\ stlMeshCache' = IF l.kind = "stl" THEN r.cache ELSE stlMeshCache
  /\ lastLoad' = [kind |-> l.kind, name |-> l.name, how |-> r.how,
                  wasCached |-> IF l.kind = "dxf"
                                  THEN l.name \in DOMAIN dxfLoopsCache
                                  ELSE l.name \in DOMAIN stlMeshCache]
  /\ loadLog' = Logged(loadLog, l.name, r.how)
  /\ call' = IF r.how = "failed"
               THEN Finished(call.option, [kind |-> "throw", error |-> r.error])
               ELSE AfterLoad(call)

\* The running generator makes its next asset load.
Load ==
  /\ call.pc = "running"
  /\ Loaded(Head(call.loads), LoadAsset(Head(call.loads)))
  /\ UNCHANGED malformed
  /\ UNCHANGED decoderVars

DecoderIdle ==
  /\ buffer = << >>
  /\ arg = "buffer"
  /\ frame = Idle
  /\ ret = NoValue
  /\ first = NoValue
  /\ redo = "no"

Init ==
  /\ malformed \in SUBSET AssetNames
  /\ Cardinality(malformed) <= MaxMalformed
  /\ stlMeshCache = << >>
  /\ dxfLoopsCache = << >>
  /\ call = Idle
  /\ lastLoad = NoValue
  /\ loadLog = [n \in AssetNames |-> [parsed |-> 0, failed |-> 0]]
  /\ DecoderIdle

Next == Main \/ Load

Spec == Init /\ [][Next]_vars

\* ------------------------------------------------ claims on the program
\* An asset the loaders cannot take, read off the asset itself.
Malformed(name) ==
  IF name \in StlNames
    THEN ~ Accepts(stlAssets(name))
    ELSE LET doc == dxfAssets(name)
         IN  \/ "entities" \notin DOMAIN doc
             \/ \A k \in 1 .. Len(doc.entities) :
                  \/ doc.entities[k].type \notin { "LWPOLYLINE", "POLYLINE" }
                  \/ "vertices" \notin DOMAIN doc.entities[k]
                  \/ Len(doc.entities[k].vertices) < 3

AskedForAll == ~ call.option.present \/ call.option.value = "all"

AskedForPiece == call.option.present /\ call.option.value \in PieceIdSet

\* C5: asked for one of the thirteen ids the entry point returns exactly
\* one solid, that piece; asked for "all" or nothing it returns thirteen
\* solids, the one at index k being piece k moved to (col*50, -row*50, 0)
\* with row = k div 5 and col = k mod 5, no two in one cell.  Such a call
\* throws only when an asset it loads is malformed.
C5_OnePieceOrGridOfThirteen ==
  /\ (call.pc = "returned" /\ AskedForPiece) =>
       call.outcome = [kind  |-> "solid",
                       value |-> [shape |-> call.option.value,
                                  at |-> << 0, 0, 0 >>]]
  /\ (call.pc = "returned" /\ AskedForAll) =>
       /\ call.outcome.kind = "solids"
       /\ Len(call.outcome.value) = 13
       /\ \A k \in 0 .. 12 :
            call.outcome.value[k + 1] =
              [shape |-> PIECE_IDS[k + 1],
               at |-> << (k % 5) * 50, 0 - (k \div 5) * 50, 0 >>]
       /\ \A j, k \in 1 .. 13 :
            j # k => call.outcome.value[j].at # call.outcome.value[k].at
  /\ (call.pc = "thrown" /\ (AskedForPiece \/ AskedForAll)) =>
       /\ lastLoad # NoValue
       /\ lastLoad.how = "failed"
       /\ Malformed(lastLoad.name)

C5_Witness ==
  /\ call.pc = "returned"
  /\ ~ call.option.present
  /\ Len(call.outcome.value) = 13
  /\ call.outcome.value[8] = [shape |-> "split_bishop", at |-> << 100, 0 - 50, 0 >>]
  /\ call.outcome.value[13].at = << 100, 0 - 100, 0 >>

\* C6: asked for a string that is neither "all" nor one of the thirteen
\* ids, the dispatcher raises the unknown-id error: no generator runs and
\* nothing is returned.
C6_UnknownIdRaises ==
  (call.pc # "idle" /\ call.option.present
     /\ call.option.value \notin PieceIdSet \cup { "all" }) =>
    /\ call.pc = "thrown"
    /\ call.outcome = [kind |-> "throw", error |-> "Unknown piece id"]

\* C7: over any sequence of invocations each asset is parsed with success at
\* most once; a load of a cached name is served from the cache and a load
\* of an uncached one is not; the caches hold exactly the assets parsed,
\* each with its complete result, at every point between two loads.
C7_ParsedAtMostOnce ==
  /\ \A n \in AssetNames : loadLog[n].parsed <= 1
  /\ DOMAIN stlMeshCache = { n \in StlNames : loadLog[n].parsed = 1 }
  /\ DOMAIN dxfLoopsCache = { n \in DxfNames : loadLog[n].parsed = 1 }
  /\ \A n \in DOMAIN stlMeshCache :
       /\ Accepts(stlAssets(n))
       /\ Len(stlMeshCache[n].triVerts) = 3 * DeclaredCount(stlAssets(n))
  /\ \A n \in DOMAIN dxfLoopsCache :
       /\ ~ Malformed(n)
       /\ Len(dxfLoopsCache[n]) >= 1
  /\ lastLoad # NoValue => ((lastLoad.how = "hit") <=> lastLoad.wasCached)

C7_Witness ==
  /\ call.pc = "returned"
  /\ call.option = [present |-> TRUE, value |-> "split_knight"]
  /\ lastLoad = [kind |-> "stl", name |-> "horse3.stl", how |-> "hit",
                 wasCached |-> TRUE]
  /\ loadLog["horse3.stl"].parsed = 1
  /\ loadLog["knight_profile.dxf"].parsed = 1

\* No failed name is cached, and no load served from a cache is of a name
\* that failed before.
C10_NoFailedNameCached ==
  /\ \A n \in AssetNames :
       loadLog[n].failed > 0 =>
         (n \notin DOMAIN stlMeshCache /\ n \notin DOMAIN dxfLoopsCache)
  /\ (lastLoad # NoValue /\ lastLoad.how = "failed") =>
       /\ call.pc = "thrown"
       /\ call.outcome.kind = "throw"
       /\ call.outcome.error \in FormatErrors \cup { NoLoopsError }

\* A load that fails changes neither cache and ends the invocation with the
\* error; a load of a name that failed before is tried again.
C10_FailedLoadStep ==
  /\ (call.pc = "running" /\ lastLoad'.how = "failed") =>
       /\ stlMeshCache' = stlMeshCache
       /\ dxfLoopsCache' = dxfLoopsCache
       /\ call'.pc = "thrown"
  /\ (call.pc = "running" /\ loadLog[Head(call.loads).name].failed > 0) =>
       /\ lastLoad'.how = "failed"
       /\ lastLoad'.name = Head(call.loads).name
       /\ ~ lastLoad'.wasCached

\* C10: a failed load propagates its error and leaves the cache as it was:
\* nothing is stored for the failing name, the other entries stay, and a
\* later request for the name attempts the load again.
C10_FailureLeavesCache == [] C10_NoFailedNameCached /\ [][C10_FailedLoadStep]_vars

C10_Witness ==
  /\ call.pc = "thrown"
  /\ call.outcome = [kind |-> "throw", error |-> "STL appears truncated"]
  /\ lastLoad = [kind |-> "stl", name |-> "horse3.stl", how |-> "failed",
                 wasCached |-> FALSE]
  /\ loadLog["horse3.stl"].failed = 2
  /\ "knight_profile.dxf" \in DOMAIN dxfLoopsCache
  /\ "horse3.stl" \notin DOMAIN stlMeshCache

====
